---- MODULE Spec2Model ----
(***************************************************************************)
(* A model of emea_feed_relay.py: the classification pipeline of the EMEA  *)
(* RSS relay (relevance gate, incident_score, to_priority, the harvest     *)
(* loop with the Oref push-alert source, the sort-and-deduplicate stream,  *)
(* and build_feed with its replay rewrite).                                *)
(*                                                                         *)
(* Text is modelled at two levels.  Titles, links and seed tokens are      *)
(* sequences of one-character strings, so that normalize_title, the        *)
(* SequenceMatcher ratio and the sha256 preimages are computed character   *)
(* by character.  The joined title+summary text that the regular           *)
(* expression tables are searched in is modelled by the outcome of those   *)
(* searches (a record saying which tables match and which quantities are   *)
(* captured).  Time is in whole seconds since 2024-01-01T00:00:00Z.        *)
(***************************************************************************)
EXTENDS Integers, Sequences, FiniteSets, TLC

VARIABLES
    pc,       \* position of the run: "collect", "oref", "dedup", "main", "done", or a probe position
    fi,       \* harvest(): index into ALL_FEEDS of the feed being read
    cnt,      \* harvest(): entries of the current feed already processed
    items,    \* harvest(): the collected items (line 378)
    out,      \* harvest(): the deduplicated list it returns (line 421)
    feed,     \* build_feed(): the entries of the generated feed, one run after the other
    clock,    \* the wall clock (time.time(), datetime.now)
    probe     \* direct calls of to_priority / incident_score and their results

vars == <<pc, fi, cnt, items, out, feed, clock, probe>>

----------------------------------------------------------------------------
(* Character sequences *)

UpperChars == <<"A","B","C","D","E","F","G","H","I","J","K","L","M",
                "N","O","P","Q","R","S","T","U","V","W","X","Y","Z">>
LowerChars == <<"a","b","c","d","e","f","g","h","i","j","k","l","m",
                "n","o","p","q","r","s","t","u","v","w","x","y","z">>
DigitChars == <<"0","1","2","3","4","5","6","7","8","9">>

Range(s) == {s[i] : i \in DOMAIN s}

\* str.lower() on one character (line 236)
LowerChar(c) ==
    IF \E i \in DOMAIN UpperChars : UpperChars[i] = c
    THEN LowerChars[CHOOSE i \in DOMAIN UpperChars : UpperChars[i] = c]
    ELSE c

Lower(s) == [i \in DOMAIN s |-> LowerChar(s[i])]

IsSpace(c) == c \in {" ", "\t"}
IsAlnum(c) == c \in Range(LowerChars) \cup Range(DigitChars)
IsDash(c) == c = "-"

\* s[from..], empty when from is past the end
Drop(s, from) == IF from > Len(s) THEN <<>> ELSE SubSeq(s, from, Len(s))
\* s[..to], empty when to < 1
Take(s, to) == IF to < 1 THEN <<>> ELSE SubSeq(s, 1, to)

StartsWith(s, w) == Len(s) >= Len(w) /\ SubSeq(s, 1, Len(w)) = w

\* index of the first character at or after i that is not whitespace (Len(s)+1 if none)
RECURSIVE SkipSpace(_, _)
SkipSpace(s, i) ==
    IF i <= Len(s) /\ IsSpace(s[i]) THEN SkipSpace(s, i + 1) ELSE i

\* index of the first character of the whitespace run that ends just before i
RECURSIVE BackSpace(_, _)
BackSpace(s, i) ==
    IF i > 1 /\ IsSpace(s[i - 1]) THEN BackSpace(s, i - 1) ELSE i

----------------------------------------------------------------------------
(* normalize_title, lines 234-243 *)

WirePrefixes ==
    << <<"b","r","e","a","k","i","n","g">>, <<"l","i","v","e">>,
       <<"u","p","d","a","t","e">>, <<"u","p","d","a","t","e","d">>,
       <<"j","u","s","t"," ","i","n">>, <<"w","a","t","c","h">>,
       <<"v","i","d","e","o">> >>

GenericWords ==
    { <<"r","e","p","o","r","t">>, <<"v","i","d","e","o">>, <<"l","i","v","e">>,
      <<"a","n","a","l","y","s","i","s">>, <<"o","p","i","n","i","o","n">> }

\* line 237: re.sub(r"^(breaking|live|...):\s+", "", s)
StripPrefix(s) ==
    LET hits == {k \in DOMAIN WirePrefixes :
                    /\ StartsWith(s, WirePrefixes[k] \o <<":">>)
                    /\ Len(s) > Len(WirePrefixes[k]) + 1
                    /\ IsSpace(s[Len(WirePrefixes[k]) + 2])}
    IN IF hits = {} THEN s
       ELSE LET k == CHOOSE k \in hits : TRUE
            IN Drop(s, SkipSpace(s, Len(WirePrefixes[k]) + 2))

\* line 238: re.sub(r"\s*\([^)]+\)$", "", s): the leftmost "(" that is closed only by
\* the last character, with the whitespace before it
StripParen(s) ==
    LET n == Len(s)
        opens == {o \in 1..(n - 2) :
                    /\ s[o] = "("
                    /\ \A k \in (o + 1)..(n - 1) : s[k] # ")"}
    IN IF n < 3 \/ s[n] # ")" \/ opens = {} THEN s
       ELSE LET o == CHOOSE o \in opens : \A o2 \in opens : o <= o2
            IN Take(s, BackSpace(s, o) - 1)

\* line 239: re.sub(r"[-...]+", "-", s): a run of dashes becomes one dash
RECURSIVE CollapseDashes(_)
CollapseDashes(s) ==
    IF s = <<>> THEN <<>>
    ELSE IF IsDash(s[1]) /\ Len(s) > 1 /\ IsDash(s[2]) THEN CollapseDashes(Tail(s))
    ELSE <<s[1]>> \o CollapseDashes(Tail(s))

\* line 240: re.sub(r"[^a-z0-9]+", " ", s): a run of other characters becomes one space
RECURSIVE SubNonAlnum(_)
SubNonAlnum(s) ==
    IF s = <<>> THEN <<>>
    ELSE IF IsAlnum(s[1]) THEN <<s[1]>> \o SubNonAlnum(Tail(s))
    ELSE IF Len(s) > 1 /\ ~IsAlnum(s[2]) THEN SubNonAlnum(Tail(s))
    ELSE <<" ">> \o SubNonAlnum(Tail(s))

\* the end (exclusive) of the word that starts at i
RECURSIVE WordEnd(_, _)
WordEnd(s, i) == IF i <= Len(s) /\ IsAlnum(s[i]) THEN WordEnd(s, i + 1) ELSE i

\* line 241: re.sub(r"\b(report|video|live|analysis|opinion)\b", " ", s), on a string of
\* [a-z0-9 ] only: a whole word of the list becomes one space
RECURSIVE SubGeneric(_)
SubGeneric(s) ==
    IF s = <<>> THEN <<>>
    ELSE IF ~IsAlnum(s[1]) THEN <<s[1]>> \o SubGeneric(Tail(s))
    ELSE LET e == WordEnd(s, 1)
             w == SubSeq(s, 1, e - 1)
         IN (IF w \in GenericWords THEN <<" ">> ELSE w) \o SubGeneric(Drop(s, e))

\* line 242: re.sub(r"\s+", " ", s).strip()
RECURSIVE CollapseSpace(_)
CollapseSpace(s) ==
    IF s = <<>> THEN <<>>
    ELSE IF IsSpace(s[1]) THEN
        (IF SkipSpace(s, 1) > Len(s) THEN <<>>
         ELSE <<" ">> \o CollapseSpace(Drop(s, SkipSpace(s, 1))))
    ELSE <<s[1]>> \o CollapseSpace(Tail(s))

Strip(s) == IF s # <<>> /\ IsSpace(s[1]) THEN Tail(s) ELSE s

normalize_title(s) ==
    Strip(CollapseSpace(SubGeneric(SubNonAlnum(CollapseDashes(StripParen(StripPrefix(Lower(s))))))))

----------------------------------------------------------------------------
(* difflib.SequenceMatcher(None, a, b).ratio(), line 432.  No junk; the     *)
(* autojunk heuristic needs len(b) >= 200 and no title here is that long.  *)

\* length of the common run of a[i..ahi-1] and b[j..bhi-1]
RECURSIVE RunLen(_, _, _, _, _, _)
RunLen(a, i, ahi, b, j, bhi) ==
    IF i < ahi /\ j < bhi /\ a[i] = b[j] THEN 1 + RunLen(a, i + 1, ahi, b, j + 1, bhi) ELSE 0

\* find_longest_match: the longest block, of those the one earliest in a, of those the
\* one earliest in b; <<i, j, k>>, k = 0 when nothing matches (half-open ranges)
FindLongestMatch(a, alo, ahi, b, blo, bhi) ==
    LET pairs == (alo..(ahi - 1)) \X (blo..(bhi - 1))
        len == [p \in pairs |-> RunLen(a, p[1], ahi, b, p[2], bhi)]
        lens == {len[p] : p \in pairs}
        k == CHOOSE x \in lens : \A y \in lens : x >= y
        first == {p \in pairs : len[p] = k}
        i == CHOOSE x \in {p[1] : p \in first} : \A p \in first : x <= p[1]
        j == CHOOSE y \in {p[2] : p \in {q \in first : q[1] = i}} :
                \A p \in {q \in first : q[1] = i} : y <= p[2]
    IN IF pairs = {} THEN <<alo, blo, 0>>
       ELSE IF k = 0 THEN <<alo, blo, 0>>
       ELSE <<i, j, k>>

\* get_matching_blocks: the sum of the sizes of the blocks found by recursing to the
\* left and to the right of the longest match
RECURSIVE Matches(_, _, _, _, _, _)
Matches(a, alo, ahi, b, blo, bhi) ==
    LET m == FindLongestMatch(a, alo, ahi, b, blo, bhi)
    IN IF m[3] = 0 THEN 0
       ELSE m[3] + Matches(a, alo, m[1], b, blo, m[2])
                 + Matches(a, m[1] + m[3], ahi, b, m[2] + m[3], bhi)

\* ratio() >= 0.96, in integers: 2*M/T >= 96/100; ratio() is 1.0 when both are empty
RatioAtLeast96(a, b) ==
    LET t == Len(a) + Len(b)
    IN IF t = 0 THEN TRUE
       ELSE 200 * Matches(a, 1, Len(a) + 1, b, 1, Len(b) + 1) >= 96 * t

----------------------------------------------------------------------------
(* Thresholds, lines 184-188 *)

P1_THRESHOLD == 80
P2_THRESHOLD == 50
P3_THRESHOLD == 30
MIN_SCORE_TO_INCLUDE == 25
REQUIRE_METEO_ORANGE == TRUE
GEO_STRICT == TRUE

HOUR == 3600

Max(a, b) == IF a >= b THEN a ELSE b
Min(a, b) == IF a <= b THEN a ELSE b

----------------------------------------------------------------------------
(* The joined text of an entry, as the regular expression tables see it:    *)
(*   sig          the scoring tables of lines 91-99 and 107-116 that match  *)
(*   meteo        which of METEO_RED / METEO_ORANGE / METEO_YELLOW match    *)
(*   hazard       HAZARDS matches;  quake: "flood|earthquake|aftershock"    *)
(*   killed, injured, arrested   the numbers captured by the three quantity *)
(*                patterns of lines 335-337, in finditer order              *)
(*   watch        WATCHLIST or WATCHLIST_HUBS matches                       *)
(*   urgent_term  URGENT_TERMS matches;  excl: EXCLUDE_PATTERNS matches     *)
(*   allow        EMEA_ALLOW matches;  non_emea: NON_EMEA_BLOCK matches     *)
(*   us           US_POLITICS, US_STATES or US_BIG_CITIES matches           *)
(* The tables are compiled with re.I, so a search in the text and in its    *)
(* lower-cased copy (line 302) agree.                                       *)

Signals == {"terror", "violence", "casualties", "protest", "protest_scale",
            "enforcement", "gov_measures", "evacuation", "trans_hard",
            "trans_soft", "cyber"}

\* the additions of lines 306-322
SignalWeight(n) ==
    CASE n = "terror" -> 90
      [] n = "violence" -> 85
      [] n = "casualties" -> 35
      [] n = "protest" -> 55
      [] n = "protest_scale" -> 35
      [] n = "enforcement" -> 30
      [] n = "gov_measures" -> 40
      [] n = "evacuation" -> 50
      [] n = "trans_hard" -> 70
      [] n = "trans_soft" -> 25
      [] n = "cyber" -> 50

RECURSIVE SignalScore(_)
SignalScore(S) ==
    IF S = {} THEN 0
    ELSE LET n == CHOOSE n \in S : TRUE IN SignalWeight(n) + SignalScore(S \ {n})

NoText ==
    [sig |-> {}, meteo |-> {}, hazard |-> FALSE, quake |-> FALSE,
     killed |-> <<>>, injured |-> <<>>, arrested |-> <<>>,
     watch |-> FALSE, urgent_term |-> FALSE, excl |-> FALSE,
     allow |-> FALSE, non_emea |-> FALSE, us |-> FALSE]

\* sources: the feed's title, or its URL (line 384); the Oref label of line 499
TrustedSources == {"BBC News", "France 24"}
OtherSources == {"Meteoalarm", "Europol", "Wire", "Israel HFC"}

\* line 351: re.search(r"BBC|Sky News|FRANCE 24|...", source, re.I), and source non-empty
TrustedPublisher(source) == source \in TrustedSources

\* recency_bonus, lines 227-231; wall is what now_ts() returns during the call
recency_bonus(published_ts, wall) ==
    IF wall - published_ts <= 6 * HOUR THEN 10
    ELSE IF wall - published_ts <= 24 * HOUR THEN 5
    ELSE 0

\* meteo_severity, lines 289-294
meteo_severity(text) ==
    IF "red" \in text.meteo THEN 70
    ELSE IF "orange" \in text.meteo THEN 40
    ELSE IF "yellow" \in text.meteo THEN (IF REQUIRE_METEO_ORANGE THEN 0 ELSE 15)
    ELSE 0

\* watchlist_bonus, lines 296-299
watchlist_bonus(text) == IF text.watch THEN 30 ELSE 0

\* lines 339-344 for one pattern: every captured number adds min(cap, max(5, n * mult))
RECURSIVE QuantityBoost(_, _, _)
QuantityBoost(ns, mult, cap) ==
    IF ns = <<>> THEN 0
    ELSE Min(cap, Max(5, Head(ns) * mult)) + QuantityBoost(Tail(ns), mult, cap)

\* a veto that fires on a yellow keyword only, and lets an alert with no severity
\* keyword through
MeteoVetoYellowOnly(text, feed_kind) ==
    feed_kind = "meteoalarm" /\ text.meteo = {"yellow"} /\ REQUIRE_METEO_ORANGE

\* the hard veto of lines 325-327
MeteoVeto(text, feed_kind) ==
    feed_kind = "meteoalarm" /\ meteo_severity(text) < 40 /\ REQUIRE_METEO_ORANGE

\* incident_score, lines 301-356: <<score, urgent>>
incident_score(text, feed_kind, published_ts, source, wall) ==
    LET base == SignalScore(text.sig)
        met_sev == meteo_severity(text)
        weather == IF feed_kind = "meteoalarm" \/ text.hazard
                   THEN met_sev + (IF text.quake THEN 20 ELSE 0)
                   ELSE 0
        quantity == QuantityBoost(text.killed, 4, 80)
                    + QuantityBoost(text.injured, 2, 55)
                    + QuantityBoost(text.arrested, 1, 45)
        score == base + weather + quantity + watchlist_bonus(text)
                 + recency_bonus(published_ts, wall)
                 + (IF TrustedPublisher(source) THEN 8 ELSE 0)
        urgent == text.urgent_term \/ score >= P1_THRESHOLD + 10
    IN IF MeteoVeto(text, feed_kind) THEN <<0, FALSE>> ELSE <<score, urgent>>

\* a classification with strict comparisons, which puts a score equal to a
\* threshold into the lower tier
to_priority_strict(score) ==
    IF score > P1_THRESHOLD THEN 1
    ELSE IF score > P2_THRESHOLD THEN 2
    ELSE IF score > P3_THRESHOLD THEN 3
    ELSE 0

\* to_priority, lines 358-362: 1, 2, 3, or 0 for none
to_priority(score) ==
    IF score >= P1_THRESHOLD THEN 1
    ELSE IF score >= P2_THRESHOLD THEN 2
    ELSE IF score >= P3_THRESHOLD THEN 3
    ELSE 0

----------------------------------------------------------------------------
(* The titles, links and seed tokens the runs below draw from *)

\* "Live: Ghent curfew (video)"
T_live ==
    <<"L","i","v","e",":"," ","G","h","e","n","t"," ","c","u","r","f","e","w"," ","(","v","i",
      "d","e","o",")">>
\* "Ghent curfew"
T_plain ==
    <<"G","h","e","n","t"," ","c","u","r","f","e","w">>
\* "Ghent curfews"
T_plural ==
    <<"G","h","e","n","t"," ","c","u","r","f","e","w","s">>
\* "Ghent curfew ends"
T_ends ==
    <<"G","h","e","n","t"," ","c","u","r","f","e","w"," ","e","n","d","s">>
\* "a ab bab b ab aa ba a aba"
T_aba ==
    <<"a"," ","a","b"," ","b","a","b"," ","b"," ","a","b"," ","a","a"," ","b","a"," ","a"," ",
      "a","b","a">>
\* "a ab bab b ab aa ba a b a"
T_ba ==
    <<"a"," ","a","b"," ","b","a","b"," ","b"," ","a","b"," ","a","a"," ","b","a"," ","a"," ",
      "b"," ","a">>
\* "Depot fire"
T_fire ==
    <<"D","e","p","o","t"," ","f","i","r","e">>
\* "Depot fire|x"
T_firex ==
    <<"D","e","p","o","t"," ","f","i","r","e","|","x">>
\* "Rocket siren: "
SirenPrefix ==
    <<"R","o","c","k","e","t"," ","s","i","r","e","n",":"," ">>
\* "Haifa"
C_haifa ==
    <<"H","a","i","f","a">>
\* "Music festival"
C_fest ==
    <<"M","u","s","i","c"," ","f","e","s","t","i","v","a","l">>
\* "http://g.be/1"
L_be ==
    <<"h","t","t","p",":","/","/","g",".","b","e","/","1">>
\* "http://g.be/2"
L_be2 ==
    <<"h","t","t","p",":","/","/","g",".","b","e","/","2">>
\* "http://x.io/1"
L_io ==
    <<"h","t","t","p",":","/","/","x",".","i","o","/","1">>
\* "x|y"
L_xy ==
    <<"x","|","y">>
\* "y"
L_y ==
    <<"y">>
\* "http://dw.community/1"
L_dwc ==
    <<"h","t","t","p",":","/","/","d","w",".","c","o","m","m","u","n","i","t","y","/","1">>
\* "http://news.bbc.com/1"
L_bbc ==
    <<"h","t","t","p",":","/","/","n","e","w","s",".","b","b","c",".","c","o","m","/","1">>
\* "HTTP://G.BE:80/1"
L_port ==
    <<"H","T","T","P",":","/","/","G",".","B","E",":","8","0","/","1">>
\* "https://www.oref.org.il/WarningMessages/alert/Alerts.json"
L_oref1 ==
    <<"h","t","t","p","s",":","/","/","w","w","w",".","o","r","e","f",".","o","r","g",".","i",
      "l","/","W","a","r","n","i","n","g","M","e","s","s","a","g","e","s","/","a","l","e","r",
      "t","/","A","l","e","r","t","s",".","j","s","o","n">>
\* "https://www.oref.org.il/warningMessages/alert/alerts.json"
L_oref2 ==
    <<"h","t","t","p","s",":","/","/","w","w","w",".","o","r","e","f",".","o","r","g",".","i",
      "l","/","w","a","r","n","i","n","g","M","e","s","s","a","g","e","s","/","a","l","e","r",
      "t","/","a","l","e","r","t","s",".","j","s","o","n">>

\* seed tokens of --reseed; the empty one is the default of line 549
Seed_s == <<"s">>
Seed_t == <<"t">>
NoSeed == <<>>

----------------------------------------------------------------------------
(* is_emea_relevant, lines 246-269 *)

\* an excerpt of EMEA_TLDS (lines 175-180) and of EMEA_OUTLET_DOMAINS (lines 169-174)
EMEA_TLDS == { <<".","u","k">>, <<".","b","e">>, <<".","f","r">>, <<".","d","e">>,
               <<".","i","l">> }
EMEA_OUTLET_DOMAINS == { <<"b","b","c",".","c","o","m">>, <<"d","w",".","c","o","m">> }

EndsWith(s, w) == Len(s) >= Len(w) /\ SubSeq(s, Len(s) - Len(w) + 1, Len(s)) = w
Contains(s, w) == \E i \in 1..(Len(s) - Len(w) + 1) : SubSeq(s, i, i + Len(w) - 1) = w

\* index of the first of the characters cs at or after i (Len(s)+1 if none)
RECURSIVE IndexOf(_, _, _)
IndexOf(s, cs, i) ==
    IF i > Len(s) \/ s[i] \in cs THEN i ELSE IndexOf(s, cs, i + 1)

\* urlparse(link).netloc.lower(), line 263: what follows "scheme://" up to "/", "?" or "#"
Netloc(link) ==
    LET c == IndexOf(link, {":"}, 1)
        rest == IF c <= Len(link) /\ c > 1 /\ \A k \in 1..(c - 1) : IsAlnum(LowerChar(link[k]))
                THEN Drop(link, c + 1) ELSE link
    IN IF StartsWith(rest, <<"/", "/">>)
       THEN Lower(SubSeq(rest, 3, IndexOf(rest, {"/", "?", "#"}, 3) - 1))
       ELSE <<>>

\* lines 266-268
HostEvidence(link) ==
    LET host == Netloc(link)
    IN /\ host # <<>>
       /\ \/ \E tld \in EMEA_TLDS : EndsWith(host, tld)
          \/ \E dom \in EMEA_OUTLET_DOMAINS : EndsWith(host, dom) \/ Contains(host, dom)

is_emea_relevant(text, link) ==
    IF (text.non_emea \/ text.us) /\ ~(text.allow \/ text.watch) THEN FALSE
    ELSE IF ~GEO_STRICT THEN
        (IF text.allow THEN TRUE ELSE IF text.non_emea THEN FALSE ELSE TRUE)
    ELSE IF text.watch THEN TRUE
    ELSE IF text.allow THEN TRUE
    ELSE HostEvidence(link)

----------------------------------------------------------------------------
(* Items, lines 274-284.  The summary field carries the joined text.        *)

\* an entry's date: <<ts>>, or <<>> when it is missing or cannot be parsed
NoDate == <<>>
Date(ts) == <<ts>>

\* an item whose priority is raised to p1 when it is urgent
ItemUrgentFirst(title, link, text, ts, source, feed_kind, score, prio, urgent) ==
    [title |-> title, link |-> link, summary |-> text, published_ts |-> ts,
     source |-> source, feed_kind |-> feed_kind, score |-> score,
     priority |-> IF urgent THEN 1 ELSE prio, urgent |-> urgent]

Item(title, link, text, ts, source, feed_kind, score, prio, urgent) ==
    [title |-> title, link |-> link, summary |-> text, published_ts |-> ts,
     source |-> source, feed_kind |-> feed_kind, score |-> score,
     priority |-> prio, urgent |-> urgent]

\* pub_ts, lines 367-375
pub_ts(e, wall) == IF e.pub = NoDate THEN wall ELSE e.pub[1]

\* str.strip() of lines 386-387
RECURSIVE StripEnd(_)
StripEnd(s) == IF s # <<>> /\ IsSpace(s[Len(s)]) THEN StripEnd(Take(s, Len(s) - 1)) ELSE s
StripBoth(s) == StripEnd(Drop(s, SkipSpace(s, 1)))

\* an inclusion test on the score alone, which lets an entry of no priority through
IncludedByScore(score, prio) == score >= MIN_SCORE_TO_INCLUDE

\* the inclusion test of line 401
Included(score, prio) == ~(prio = 0 \/ score < MIN_SCORE_TO_INCLUDE)

\* the noise test of line 393
Excluded(text) == text.excl

\* the body of the entry loop, lines 386-413: the items it appends (none or one).
\* html.unescape changes nothing in the titles drawn here (none holds "&").
HarvestEntry(e, f, wall) ==
    LET title == StripBoth(e.title)
        link == StripBoth(e.link)
        ts == pub_ts(e, wall)
        sc == incident_score(e.text, f.kind, ts, f.source, wall)
        prio == to_priority(sc[1])
    IN IF title = <<>> \/ link = <<>> THEN <<>>
       ELSE IF Excluded(e.text) THEN <<>>
       ELSE IF ~is_emea_relevant(e.text, link) THEN <<>>
       ELSE IF ~Included(sc[1], prio) THEN <<>>
       ELSE << Item(title, link, e.text, ts, f.source, f.kind, sc[1], prio, sc[2]) >>

\* the forced score of line 500
ForceP1(score) == Max(score, P1_THRESHOLD + 5)

\* harvest_oref._mk_item, lines 497-511
mk_item(title, link_text, when, details, wall) ==
    LET sc == incident_score(details, "alerts", when, "Israel HFC", wall)
        score == ForceP1(sc[1])
    IN Item(title, link_text, details, when, "Israel Home Front Command (Oref)",
            "alerts", score, to_priority(score), TRUE)

\* lines 519-529 for one alert of the JSON: a.place is cities_txt or, when that is
\* empty, the threat; a.text the text "{title} {details}"; a.when the parsed time
OrefItem(a, url, wall) ==
    mk_item(SirenPrefix \o a.place, url, IF a.when = NoDate THEN wall ELSE a.when[1],
            a.text, wall)

----------------------------------------------------------------------------
(* The sort and the deduplication stream of harvest(), lines 418-440 *)

\* the sort key of line 422 compared: x's key is greater than y's
KeyGreater(x, y) ==
    \/ x.priority > y.priority
    \/ x.priority = y.priority /\ x.score > y.score
    \/ x.priority = y.priority /\ x.score = y.score /\ x.published_ts > y.published_ts

\* sorted(items, key=..., reverse=True): descending by key, and stable (items of equal
\* key keep their order): x goes before the first item whose key is smaller
RECURSIVE InsertSorted(_, _)
InsertSorted(s, x) ==
    IF s = <<>> THEN <<x>>
    ELSE IF KeyGreater(x, Head(s)) THEN <<x>> \o s
    ELSE <<Head(s)>> \o InsertSorted(Tail(s), x)

RECURSIVE SortItems(_)
SortItems(s) ==
    IF s = <<>> THEN <<>>
    ELSE InsertSorted(SortItems(Take(s, Len(s) - 1)), s[Len(s)])

\* line 423: sha256 of title + '|' + link, modelled by its preimage (sha256 taken
\* as collision-free)
ExactKey(it) == it.title \o <<"|">> \o it.link

\* the titles whose normal form and similarities are tabulated
TitlePool == {T_live, T_plain, T_plural, T_ends, T_aba, T_ba, T_fire, T_firex,
              SirenPrefix \o C_haifa, SirenPrefix \o C_fest}

NormTable == [t \in TitlePool |-> normalize_title(t)]
NormPool == {NormTable[t] : t \in TitlePool}
RatioTable == [p \in NormPool \X NormPool |-> RatioAtLeast96(p[1], p[2])]

\* line 426, read from the table where the title is tabulated
Norm(title) == IF title \in TitlePool THEN NormTable[title] ELSE normalize_title(title)

\* line 432: SequenceMatcher(None, norm, prev).ratio() >= 0.96
Similar(norm, prev) ==
    IF norm \in NormPool /\ prev \in NormPool THEN RatioTable[<<norm, prev>>]
    ELSE RatioAtLeast96(norm, prev)

\* lines 427-434
IsDup(norm, seen_norm_titles) ==
    \/ \E k \in DOMAIN seen_norm_titles : seen_norm_titles[k] = norm
    \/ \E k \in DOMAIN seen_norm_titles : Similar(norm, seen_norm_titles[k])

\* the loop of lines 422-439 from position i of the sorted list; acc.kept lists the
\* positions kept so far
RECURSIVE DedupLoop(_, _, _)
DedupLoop(s, i, acc) ==
    IF i > Len(s) THEN acc
    ELSE LET it == s[i]
             h == ExactKey(it)
             norm == Norm(it.title)
         IN IF h \in acc.seen_hashes THEN DedupLoop(s, i + 1, acc)
            ELSE IF IsDup(norm, acc.seen_norm_titles) THEN DedupLoop(s, i + 1, acc)
            ELSE DedupLoop(s, i + 1,
                    [seen_hashes |-> acc.seen_hashes \cup {h},
                     seen_norm_titles |-> Append(acc.seen_norm_titles, norm),
                     out |-> Append(acc.out, it),
                     kept |-> Append(acc.kept, i)])

DedupRun(batch) ==
    DedupLoop(SortItems(batch), 1,
              [seen_hashes |-> {}, seen_norm_titles |-> <<>>, out |-> <<>>, kept |-> <<>>])

Dedupe(batch) == DedupRun(batch).out

----------------------------------------------------------------------------
(* build_feed, lines 442-472, and main, lines 552-556 *)

TwoDigits(n) == <<DigitChars[(n \div 10) + 1], DigitChars[(n % 10) + 1]>>

\* now.strftime("%Y%m%d%H%M%S"), line 464, for the days of January 2024
Strftime(now) ==
    <<"2","0","2","4","0","1">> \o TwoDigits(1 + now \div (24 * HOUR))
        \o TwoDigits((now % (24 * HOUR)) \div HOUR)
        \o TwoDigits((now % HOUR) \div 60) \o TwoDigits(now % 60)

\* a seed that ignores the token and is always the time of the run
SeedOfClock(reseed, now) == Strftime(now)

\* line 464: seed = reseed or now.strftime(...)
SeedOf(reseed, now) == IF reseed # <<>> THEN reseed ELSE Strftime(now)

\* a bump that grows with the index, which gives the best ranked item the earliest
\* timestamp
BumpedByIndex(now, replay, idx) == now + idx + 1

\* line 462: the bumped timestamp of the item at index idx (from 0)
Bumped(now, replay, idx) == now + (replay - idx)

\* lines 465 and 469: the sha256 digests, modelled by their preimages
SeededGuid(it, seed) == it.title \o <<"|">> \o it.link \o <<"|">> \o seed
PlainGuid(it) == it.title \o <<"|">> \o it.link

\* lines 451-470 for the item at index idx (from 0): the entry added, if any
FeedEntry(it, idx, replay, reseed, now) ==
    IF it.priority \notin {1, 2, 3} THEN <<>>
    ELSE IF idx < replay
    THEN << [title |-> it.title, link |-> it.link, idx |-> idx,
             pubDate |-> Bumped(now, replay, idx),
             guid |-> SeededGuid(it, SeedOf(reseed, now))] >>
    ELSE << [title |-> it.title, link |-> it.link, idx |-> idx,
             pubDate |-> it.published_ts,
             guid |-> PlainGuid(it)] >>

RECURSIVE FeedEntries(_, _, _, _, _)
FeedEntries(its, k, replay, reseed, now) ==
    IF k > Len(its) THEN <<>>
    ELSE FeedEntry(its[k], k - 1, replay, reseed, now)
            \o FeedEntries(its, k + 1, replay, reseed, now)

build_feed(its, replay, reseed, now) == FeedEntries(its, 1, replay, reseed, now)

\* line 553: items[: args.max_items]
Truncate(its, max_items) == Take(its, Min(max_items, Len(its)))

----------------------------------------------------------------------------
(* Bounds and the inputs the runs draw from *)

MaxEntries == 2      \* entries read from one feed
MaxCollected == 2    \* items collected in one run of harvest()
MaxBatch == 3        \* items in a batch handed to the deduplication directly
MaxTicks == 1        \* advances of the wall clock
MaxReplay == 3       \* --replay
MaxRuns == 2         \* runs of main over one harvest result
MaxScore == 100      \* scores handed to to_priority directly

StartClock == 40 * HOUR
TickSeconds == 5 * HOUR
Recent == StartClock - 2 * HOUR
Old == StartClock - 30 * HOUR

\* ALL_FEEDS (lines 75-81), one feed of each kind, with the title it answers with
Feeds ==
    << [kind |-> "meteoalarm", source |-> "Meteoalarm"],
       [kind |-> "alerts", source |-> "Europol"],
       [kind |-> "news", source |-> "BBC News"] >>

X_curfew == [NoText EXCEPT !.sig = {"gov_measures"}, !.allow = TRUE]
X_riot == [NoText EXCEPT !.sig = {"violence", "enforcement"}, !.arrested = <<12>>,
                         !.allow = TRUE]
X_noise == [NoText EXCEPT !.sig = {"terror"}, !.excl = TRUE, !.allow = TRUE,
                          !.urgent_term = TRUE]
X_yellow == [NoText EXCEPT !.meteo = {"yellow"}, !.hazard = TRUE, !.sig = {"violence"},
                           !.urgent_term = TRUE, !.watch = TRUE]
X_orange == [NoText EXCEPT !.meteo = {"orange"}, !.hazard = TRUE, !.allow = TRUE]
X_soft == [NoText EXCEPT !.sig = {"trans_soft"}, !.allow = TRUE]
X_far == [NoText EXCEPT !.sig = {"terror"}, !.non_emea = TRUE]
X_host == [NoText EXCEPT !.sig = {"protest"}]
X_fest == [NoText EXCEPT !.excl = TRUE]
X_urgent == [NoText EXCEPT !.sig = {"gov_measures"}, !.urgent_term = TRUE, !.allow = TRUE]

Entry(title, link, text, pub) == [title |-> title, link |-> link, text |-> text, pub |-> pub]

\* the entries the feeds may hold
EntryPool ==
    { Entry(T_plain, L_be, X_curfew, Date(Recent)),
      Entry(T_plural, L_be, X_urgent, NoDate),
      Entry(T_plain, L_io, X_riot, Date(Recent)),
      Entry(T_plain, L_be, X_noise, Date(Recent)),
      Entry(T_plural, L_be, X_yellow, Date(Recent)),
      Entry(T_plain, L_be, X_orange, Date(Old)),
      Entry(T_plain, L_be, X_soft, Date(Recent)),
      Entry(T_plain, L_be, X_soft, Date(Old)),
      Entry(T_plain, L_be, X_far, Date(Recent)),
      Entry(T_plain, L_be, NoText, Date(Recent)),
      Entry(T_plain, L_be, X_host, Date(Old)),
      Entry(T_plain, L_io, X_host, Date(Old)),
      Entry(<<>>, L_be, X_riot, Date(Recent)),
      Entry(T_plain, <<" ">>, X_riot, Date(Recent)) }

\* the alerts the Oref JSON may hold
AlertPool ==
    { [place |-> C_haifa, text |-> NoText, when |-> NoDate],
      [place |-> C_fest, text |-> X_fest, when |-> Date(Recent)] }

\* items as harvest() collects them, for the batches handed to the deduplication
Collected(title, link, score, ts) ==
    Item(title, link, [NoText EXCEPT !.allow = TRUE], ts, "Wire", "news", score,
         to_priority(score),
         score >= P1_THRESHOLD + 10)

DedupPool ==
    { Collected(T_live, L_be, 93, Recent),
      Collected(T_plain, L_be, 53, Recent),
      Collected(T_plain, L_be, 45, Recent),
      Collected(T_plain, L_io, 85, Old),
      Collected(T_plural, L_be, 53, Old),
      Collected(T_ends, L_be, 45, Recent),
      Collected(T_aba, L_be, 85, Recent),
      Collected(T_ba, L_be, 85, Recent),
      Collected(T_fire, L_xy, 85, Recent),
      Collected(T_firex, L_y, 85, Old) }

FeedPool ==
    << Collected(T_plain, L_be, 93, Recent),
       Collected(T_ends, L_be, 53, Old),
       Collected(T_fire, L_io, 45, Recent) >>

\* the harvest results main() is run over: the stories above, none to all of them
FeedBatches == { SubSeq(FeedPool, 1, k) : k \in 0..Len(FeedPool) }

SeqsUpTo(S, n) == UNION {[1..k -> S] : k \in 0..n}

SeedPool == {NoSeed, Seed_s, Seed_t}
MaxItemsPool == {1, 250}

----------------------------------------------------------------------------
(* The run: harvest() and main() *)

Init ==
    /\ pc = "collect"
    /\ fi = 1
    /\ cnt = 0
    /\ items = <<>>
    /\ out = <<>>
    /\ feed = <<>>
    /\ clock = StartClock
    /\ probe = <<>>

\* the wall clock advances while a feed is fetched, between harvest and build_feed,
\* and between runs
Tick ==
    /\ pc \in {"collect", "main", "done", "score"}
    /\ pc = "collect" => cnt = 0
    /\ clock < StartClock + MaxTicks * TickSeconds
    /\ clock' = clock + TickSeconds
    /\ UNCHANGED <<pc, fi, cnt, items, out, feed, probe>>

\* lines 380-383: feedparser.parse raises and the feed is skipped
FetchFail ==
    /\ pc = "collect"
    /\ cnt = 0
    /\ fi <= Len(Feeds)
    /\ fi' = fi + 1
    /\ pc' = IF fi = Len(Feeds) THEN "oref" ELSE "collect"
    /\ UNCHANGED <<cnt, items, out, feed, clock, probe>>

\* lines 385-413: one entry of the feed being read
ReadEntry(e) ==
    /\ pc = "collect"
    /\ fi <= Len(Feeds)
    /\ cnt < MaxEntries
    /\ Len(items) < MaxCollected
    /\ items' = items \o HarvestEntry(e, Feeds[fi], clock)
    /\ cnt' = cnt + 1
    /\ UNCHANGED <<pc, fi, out, feed, clock, probe>>

\* the entries of the feed are exhausted
EndFeed ==
    /\ pc = "collect"
    /\ fi <= Len(Feeds)
    /\ fi' = fi + 1
    /\ cnt' = 0
    /\ pc' = IF fi = Len(Feeds) THEN "oref" ELSE "collect"
    /\ UNCHANGED <<items, out, feed, clock, probe>>

\* line 416 with harvest_oref, lines 477-534: the first URL that answers with alerts
OrefAlerts(url, a) ==
    /\ pc = "oref"
    /\ Len(items) < MaxCollected
    /\ items' = items \o <<OrefItem(a, url, clock)>>
    /\ pc' = "dedup"
    /\ UNCHANGED <<fi, cnt, out, feed, clock, probe>>

\* harvest_oref: both URLs fail, or answer without alerts
OrefNothing ==
    /\ pc = "oref"
    /\ pc' = "dedup"
    /\ UNCHANGED <<fi, cnt, items, out, feed, clock, probe>>

\* lines 418-440
Dedup ==
    /\ pc = "dedup"
    /\ out' = Dedupe(items)
    /\ pc' = "main"
    /\ UNCHANGED <<fi, cnt, items, feed, clock, probe>>

\* main, lines 552-556: one run of build_feed over the harvest result
Main(max_items, replay, reseed) ==
    /\ pc = "main"
    /\ feed' = Append(feed, [now |-> clock, replay |-> replay, reseed |-> reseed,
                             items |-> Truncate(out, max_items),
                             entries |-> build_feed(Truncate(out, max_items), replay,
                                                    reseed, clock)])
    /\ pc' = "done"
    /\ UNCHANGED <<fi, cnt, items, out, clock, probe>>

Next ==
    \/ Tick
    \/ FetchFail
    \/ \E e \in EntryPool : ReadEntry(e)
    \/ EndFeed
    \/ \E url \in {L_oref1, L_oref2}, a \in AlertPool : OrefAlerts(url, a)
    \/ OrefNothing
    \/ Dedup
    \/ \E m \in MaxItemsPool, r \in 0..MaxReplay, sd \in SeedPool : Main(m, r, sd)

Spec == Init /\ [][Next]_vars

----------------------------------------------------------------------------
(* The deduplication of harvest() on a collected batch *)

InitDedup ==
    /\ pc = "dedup"
    /\ fi = Len(Feeds) + 1
    /\ cnt = 0
    /\ items \in SeqsUpTo(DedupPool, MaxBatch)
    /\ out = <<>>
    /\ feed = <<>>
    /\ clock = StartClock
    /\ probe = <<>>

NextDedup == Dedup

SpecDedup == InitDedup /\ [][NextDedup]_vars

----------------------------------------------------------------------------
(* main() run, and run again, over one harvest result *)

InitFeed ==
    /\ pc = "main"
    /\ fi = Len(Feeds) + 1
    /\ cnt = 0
    /\ items \in FeedBatches
    /\ out = Dedupe(items)
    /\ feed = <<>>
    /\ clock = StartClock
    /\ probe = <<>>

\* the relay is started again
Rerun ==
    /\ pc = "done"
    /\ Len(feed) < MaxRuns
    /\ pc' = "main"
    /\ UNCHANGED <<fi, cnt, items, out, feed, clock, probe>>

NextFeed ==
    \/ Tick
    \/ \E m \in MaxItemsPool, r \in 0..MaxReplay, sd \in SeedPool : Main(m, r, sd)
    \/ Rerun

SpecFeed == InitFeed /\ [][NextFeed]_vars

----------------------------------------------------------------------------
(* incident_score called directly, twice with the same arguments, and the   *)
(* entry loop of harvest() run on an entry with the same text              *)

SigSets ==
    { {}, {"terror"}, {"violence", "casualties"},
      {"protest", "protest_scale", "enforcement"}, {"gov_measures", "evacuation"},
      {"trans_hard", "trans_soft", "cyber"}, Signals }
MeteoSets == { {}, {"yellow"}, {"orange"}, {"red", "yellow"} }
QuantityPool == { <<>>, <<3, 40>> }

ScoreTexts ==
    { [NoText EXCEPT !.sig = sg, !.meteo = mt, !.hazard = hz[1], !.quake = hz[2],
                     !.killed = q, !.injured = q, !.arrested = q,
                     !.watch = w, !.urgent_term = u] :
        sg \in SigSets, mt \in MeteoSets,
        hz \in {<<FALSE, FALSE>>, <<TRUE, FALSE>>, <<TRUE, TRUE>>},
        q \in QuantityPool, w \in BOOLEAN, u \in BOOLEAN }

FeedKinds == {"meteoalarm", "alerts", "news"}

InitScore ==
    /\ pc = "score"
    /\ fi = 1
    /\ cnt = 0
    /\ items = <<>>
    /\ out = <<>>
    /\ feed = <<>>
    /\ clock = StartClock
    /\ probe \in [text : ScoreTexts, feed_kind : FeedKinds, published_ts : {Recent, Old},
                  source : {"BBC News", "Wire"}, first : {<<>>}, second : {<<>>},
                  collected : {<<>>}]

\* incident_score(text, feed_kind, published_ts, source), and the loop body of
\* harvest() on an entry of a feed of that kind and source with that text and date
ScoreFirst ==
    /\ pc = "score"
    /\ probe.first = <<>>
    /\ probe' = [probe EXCEPT
          !.first = <<incident_score(probe.text, probe.feed_kind, probe.published_ts,
                                     probe.source, clock)>>,
          !.collected = HarvestEntry(
                Entry(T_plain, L_be, probe.text, Date(probe.published_ts)),
                [kind |-> probe.feed_kind, source |-> probe.source], clock)]
    /\ UNCHANGED <<pc, fi, cnt, items, out, feed, clock>>

\* the same call again
ScoreAgain ==
    /\ pc = "score"
    /\ probe.first # <<>>
    /\ probe.second = <<>>
    /\ probe' = [probe EXCEPT
          !.second = <<incident_score(probe.text, probe.feed_kind, probe.published_ts,
                                      probe.source, clock)>>]
    /\ UNCHANGED <<pc, fi, cnt, items, out, feed, clock>>

NextScore == Tick \/ ScoreFirst \/ ScoreAgain

SpecScore == InitScore /\ [][NextScore]_vars

----------------------------------------------------------------------------
(* to_priority called on two scores *)

InitPriority ==
    /\ pc = "priority"
    /\ fi = 1
    /\ cnt = 0
    /\ items = <<>>
    /\ out = <<>>
    /\ feed = <<>>
    /\ clock = StartClock
    /\ probe \in [s1 : 0..MaxScore, s2 : 0..MaxScore, p1 : {<<>>}, p2 : {<<>>}]

Classify ==
    /\ pc = "priority"
    /\ probe.p1 = <<>>
    /\ probe' = [probe EXCEPT !.p1 = <<to_priority(probe.s1)>>,
                              !.p2 = <<to_priority(probe.s2)>>]
    /\ UNCHANGED <<pc, fi, cnt, items, out, feed, clock>>

NextPriority == Classify

SpecPriority == InitPriority /\ [][NextPriority]_vars

----------------------------------------------------------------------------
(* is_emea_relevant called directly *)

\* what the region patterns can find in a text, in every combination
GeoTexts ==
    { [NoText EXCEPT !.allow = al, !.watch = w, !.non_emea = ne, !.us = us] :
        al \in BOOLEAN, w \in BOOLEAN, ne \in BOOLEAN, us \in BOOLEAN }

GeoLinks == {<<>>, L_be, L_io, L_xy, L_dwc, L_bbc, L_port}

InitGeo ==
    /\ pc = "geo"
    /\ fi = 1
    /\ cnt = 0
    /\ items = <<>>
    /\ out = <<>>
    /\ feed = <<>>
    /\ clock = StartClock
    /\ probe \in [text : GeoTexts, link : GeoLinks, verdict : {<<>>}]

Relevant ==
    /\ pc = "geo"
    /\ probe.verdict = <<>>
    /\ probe' = [probe EXCEPT !.verdict = <<is_emea_relevant(probe.text, probe.link)>>]
    /\ UNCHANGED <<pc, fi, cnt, items, out, feed, clock>>

NextGeo == Relevant

SpecGeo == InitGeo /\ [][NextGeo]_vars

----------------------------------------------------------------------------
(* The collection of harvest(), lines 377-416, with a record of what each feed  *)
(* answered: probe.failed holds the feeds whose fetch raised, probe.read the    *)
(* entries read, each with its feed and the wall clock at which it was read.    *)
(* The collection is over when the deduplication is reached.                    *)

IsoPool ==
    { Entry(T_plain, L_be, X_curfew, Date(Recent)),
      Entry(T_fire, L_be, X_soft, NoDate),
      Entry(T_ends, L_be, X_orange, Date(Old)) }

InitIso ==
    /\ pc = "collect"
    /\ fi = 1
    /\ cnt = 0
    /\ items = <<>>
    /\ out = <<>>
    /\ feed = <<>>
    /\ clock = StartClock
    /\ probe = [failed |-> {}, read |-> <<>>]

\* a fetch that fails and takes the collected items with it
IsoFailAborts ==
    /\ pc = "collect"
    /\ cnt = 0
    /\ fi <= Len(Feeds)
    /\ fi' = fi + 1
    /\ pc' = IF fi = Len(Feeds) THEN "oref" ELSE "collect"
    /\ items' = <<>>
    /\ probe' = [probe EXCEPT !.failed = @ \cup {fi}]
    /\ UNCHANGED <<cnt, out, feed, clock>>

\* lines 380-383: feedparser.parse raises and the feed is skipped
IsoFail ==
    /\ pc = "collect"
    /\ cnt = 0
    /\ fi <= Len(Feeds)
    /\ fi' = fi + 1
    /\ pc' = IF fi = Len(Feeds) THEN "oref" ELSE "collect"
    /\ probe' = [probe EXCEPT !.failed = @ \cup {fi}]
    /\ UNCHANGED <<cnt, items, out, feed, clock>>

\* lines 385-413: one entry of the feed being read
IsoRead(e) ==
    /\ pc = "collect"
    /\ fi <= Len(Feeds)
    /\ cnt < MaxEntries
    /\ Len(probe.read) < MaxCollected
    /\ items' = items \o HarvestEntry(e, Feeds[fi], clock)
    /\ cnt' = cnt + 1
    /\ probe' = [probe EXCEPT !.read = Append(@, [feed |-> fi, e |-> e, wall |-> clock])]
    /\ UNCHANGED <<pc, fi, out, feed, clock>>

NextIso ==
    \/ Tick
    \/ IsoFail
    \/ \E e \in IsoPool : IsoRead(e)
    \/ EndFeed
    \/ \E url \in {L_oref1, L_oref2}, a \in AlertPool : OrefAlerts(url, a)
    \/ OrefNothing

\* the program keeps running: a step that can be taken is taken
SpecIso == InitIso /\ [][NextIso]_vars /\ WF_vars(NextIso)

----------------------------------------------------------------------------
(* Properties *)

\* the ordinal of a priority: p1 > p2 > p3 > none
Tier(p) == IF p = 0 THEN 0 ELSE 4 - p

\* x is ranked at least as well as y: higher priority, then higher score, then more
\* recent
RankedBefore(x, y) ==
    \/ Tier(x.priority) > Tier(y.priority)
    \/ Tier(x.priority) = Tier(y.priority) /\ x.score > y.score
    \/ /\ Tier(x.priority) = Tier(y.priority)
       /\ x.score = y.score
       /\ x.published_ts >= y.published_ts

SameStory(x, y) == x.title = y.title /\ x.link = y.link

\* the sorted stream of the deduplication and the positions of it that are kept
Stream == SortItems(items)
Kept == Range(DedupRun(items).kept)

\* the normalized titles of positions i and k of the stream are equal or at a
\* similarity ratio of at least 0.96, computed as line 432 does for a later i
NearDup(i, k) ==
    LET a == NormTable[Stream[i].title]
        b == NormTable[Stream[k].title]
    IN a = b \/ RatioTable[<<a, b>>]

\* C1: the list the deduplication returns is ordered highest priority first (p1
\* before p2 before p3), then by descending score, then most recent first.
C1_RankedHighestFirst ==
    pc = "main" =>
        \A i, j \in DOMAIN out : i < j => RankedBefore(out[i], out[j])

\* C2: of the collected items with one (title, link), when there are two or more,
\* exactly one is in the output and it is the best ranked of them; and no dropped
\* item has a higher priority than the kept item it duplicates.
C2_BestDuplicateSurvives ==
    pc = "main" =>
        /\ \A i \in DOMAIN items :
              LET same == {j \in DOMAIN items : SameStory(items[j], items[i])}
                  left == {k \in DOMAIN out : SameStory(out[k], items[i])}
              IN Cardinality(same) >= 2 =>
                    /\ Cardinality(left) = 1
                    /\ \A k \in left, j \in same : RankedBefore(out[k], items[j])
        /\ \A d \in DOMAIN Stream \ Kept :
              \A k \in Kept :
                  (k < d /\ (SameStory(Stream[k], Stream[d]) \/ NearDup(d, k)))
                      => Tier(Stream[k].priority) >= Tier(Stream[d].priority)

\* C3: an item is dropped if its normalized title equals, or is at ratio >= 0.96
\* with, that of a previously kept item, so no two kept items are that similar; and
\* two items with different (title, link) whose normalized titles are below 0.96 to
\* each other and to every other kept title both survive.
C3_NearDupCollapse ==
    pc = "main" =>
        /\ \A i \in DOMAIN Stream :
              (\E k \in Kept : k < i /\ NearDup(i, k)) => i \notin Kept
        /\ \A i, j \in Kept : i < j => ~NearDup(j, i)
        /\ \A i, j \in DOMAIN Stream :
              ( /\ ~SameStory(Stream[i], Stream[j])
                /\ ~NearDup(i, j) /\ ~NearDup(j, i)
                /\ \A k \in Kept \ {i, j} :
                      ~NearDup(i, k) /\ ~NearDup(k, i) /\ ~NearDup(j, k) /\ ~NearDup(k, j) )
              => (i \in Kept /\ j \in Kept)

\* What the stream does decide: an item is kept exactly when no previously kept
\* item has its exact key or a normalized title equal or at ratio >= 0.96 (the
\* item's title first, the kept one second); the output is the kept items in order.
DropRule ==
    pc = "main" =>
        /\ \A i \in DOMAIN Stream :
              i \in Kept <=>
                  \A k \in Kept : k < i =>
                      ExactKey(Stream[k]) # ExactKey(Stream[i]) /\ ~NearDup(i, k)
        /\ Len(out) = Cardinality(Kept)

\* C4: to_priority is monotone in the order p1 > p2 > p3 > none, a score equal to a
\* threshold (80, 50, 30) gets the higher tier, and a score below 30 gets none.
C4_PriorityMonotone ==
    (pc = "priority" /\ probe.p1 # <<>>) =>
        /\ probe.s1 > probe.s2 => Tier(probe.p1[1]) >= Tier(probe.p2[1])
        /\ probe.s1 = 80 => probe.p1[1] = 1
        /\ probe.s1 = 50 => probe.p1[1] = 2
        /\ probe.s1 = 30 => probe.p1[1] = 3
        /\ probe.s1 < 30 => probe.p1[1] = 0

C4_Witness ==
    /\ pc = "priority"
    /\ probe.s1 = 80 /\ probe.s2 = 79
    /\ probe.p1 = <<1>> /\ probe.p2 = <<2>>

\* C5: a meteorological-alert entry whose text has neither a red nor an orange
\* severity keyword scores <<0, FALSE>> whatever else matches, and the entry loop
\* collects nothing for it.
C5_MeteoVeto ==
    ( /\ pc = "score"
      /\ probe.first # <<>>
      /\ probe.feed_kind = "meteoalarm"
      /\ "red" \notin probe.text.meteo
      /\ "orange" \notin probe.text.meteo )
    => (probe.first[1] = <<0, FALSE>> /\ probe.collected = <<>>)

C5_Witness ==
    /\ pc = "score"
    /\ probe.first = << <<0, FALSE>> >>
    /\ probe.collected = <<>>
    /\ probe.feed_kind = "meteoalarm"
    /\ probe.text.meteo = {"yellow"}
    /\ probe.text.sig = Signals
    /\ probe.text.killed # <<>>
    /\ probe.text.watch /\ probe.text.urgent_term
    /\ probe.source = "BBC News"
    /\ probe.published_ts = Recent

\* C6: no item whose joined title+summary matches a noise pattern is in the output
\* of harvest(), the items of harvest_oref included.
C6_NoNoiseInOutput ==
    /\ \A i \in DOMAIN items : ~items[i].summary.excl
    /\ \A i \in DOMAIN out : ~out[i].summary.excl

\* C7: two calls of incident_score with identical text, category, publish timestamp
\* and source return identical (score, urgent), whatever happens in between.
C7_ScoreIsPure ==
    (pc = "score" /\ probe.second # <<>>) => probe.second = probe.first


Abs(x) == IF x < 0 THEN 0 - x ELSE x

\* the entries of run r that were replayed
Replayed(r) == {k \in DOMAIN r.entries : r.entries[k].idx < r.replay}

\* C8: the synthetic timestamps of the replayed items preserve rank order (a better
\* ranked item gets a strictly later one), and the item ranked 1 gets the timestamp
\* closest to "now" of all replayed items.
C8_RankOneClosestToNow ==
    \A n \in DOMAIN feed :
        LET r == feed[n]
            e == r.entries
        IN \A a, b \in Replayed(r) :
              /\ e[a].idx < e[b].idx => e[a].pubDate > e[b].pubDate
              /\ e[a].idx = 0 => Abs(e[a].pubDate - r.now) <= Abs(e[b].pubDate - r.now)

\* C8 as the code has it: rank order is preserved in time, every replayed timestamp
\* is after "now", and the item ranked 1 gets the latest one, now + N seconds, the
\* farthest from "now"; the last replayed item gets the one closest to "now".
C8_RankOneLatest ==
    \A n \in DOMAIN feed :
        LET r == feed[n]
            e == r.entries
        IN \A a, b \in Replayed(r) :
              /\ e[a].idx < e[b].idx => e[a].pubDate > e[b].pubDate
              /\ e[a].pubDate > r.now
              /\ e[a].idx = 0 =>
                    /\ e[a].pubDate = r.now + r.replay
                    /\ Abs(e[a].pubDate - r.now) >= Abs(e[b].pubDate - r.now)
              /\ e[a].idx >= e[b].idx =>
                    Abs(e[a].pubDate - r.now) <= Abs(e[b].pubDate - r.now)

C8_Witness ==
    \E n \in DOMAIN feed :
        /\ feed[n].replay = 3
        /\ Cardinality(Replayed(feed[n])) = 3
        /\ feed[n].entries[1].pubDate = feed[n].now + 3
        /\ feed[n].entries[3].pubDate = feed[n].now + 1

\* the unseeded identifier of an entry: the digest of title + '|' + link
Unseeded(e) == e.title \o <<"|">> \o e.link

\* entries that are not replayed have the unseeded identifier and the publish
\* timestamp of their item
RestKeepIdentity ==
    \A n \in DOMAIN feed :
        \A k \in DOMAIN feed[n].entries \ Replayed(feed[n]) :
            LET e == feed[n].entries[k]
            IN /\ e.guid = Unseeded(e)
               /\ e.pubDate = feed[n].items[e.idx + 1].published_ts

\* C9: a replayed item's identifier is the same in every run with the same seed
\* token, differs under a different seed token, and differs from the unseeded
\* identifier; the other items get the unseeded identifier and keep their timestamp.
C9_SeededIdentifier ==
    /\ \A m, n \in DOMAIN feed :
          \A a \in Replayed(feed[m]), b \in Replayed(feed[n]) :
              LET x == feed[m].entries[a]
                  y == feed[n].entries[b]
              IN SameStory(x, y) =>
                    /\ feed[m].reseed = feed[n].reseed => x.guid = y.guid
                    /\ feed[m].reseed # feed[n].reseed => x.guid # y.guid
                    /\ x.guid # Unseeded(x)
    /\ RestKeepIdentity

\* C9 as the code has it: the above for seed tokens that are not empty; with no
\* seed token the run's time to the second is the seed, so two such runs give a
\* replayed item the same identifier only within the same second.
C9_NonEmptySeed ==
    /\ \A m, n \in DOMAIN feed :
          \A a \in Replayed(feed[m]), b \in Replayed(feed[n]) :
              LET x == feed[m].entries[a]
                  y == feed[n].entries[b]
                  sm == feed[m].reseed
                  sn == feed[n].reseed
              IN SameStory(x, y) =>
                    /\ (sm # <<>> /\ sm = sn) => x.guid = y.guid
                    /\ (sm # <<>> /\ sn # <<>> /\ sm # sn) => x.guid # y.guid
                    /\ (sm = <<>> /\ sn = <<>>) =>
                          (x.guid = y.guid <=> feed[m].now = feed[n].now)
                    /\ x.guid # Unseeded(x)
    /\ RestKeepIdentity

C9_Witness ==
    /\ Len(feed) = 2
    /\ feed[1].reseed = Seed_s /\ feed[2].reseed = Seed_s
    /\ feed[1].now # feed[2].now
    /\ feed[1].replay = 1 /\ feed[2].replay = 2
    /\ Len(feed[1].entries) = 3 /\ Len(feed[2].entries) = 3
    /\ feed[1].entries[1].guid = feed[2].entries[1].guid
    /\ feed[1].entries[2].guid # feed[2].entries[2].guid

\* C10: every item handed to the deduplication, and so every item of the output
\* and of the feed, has priority p1, p2 or p3 and a score of at least the minimum
\* inclusion threshold (25).
C10_CollectedHavePriority ==
    LET ok(it) == it.priority \in {1, 2, 3} /\ it.score >= 25
    IN /\ \A i \in DOMAIN items : ok(items[i])
       /\ \A i \in DOMAIN out : ok(out[i])
       /\ \A n \in DOMAIN feed : \A i \in DOMAIN feed[n].items : ok(feed[n].items[i])

C10_Witness ==
    /\ pc = "done"
    /\ Len(out) = 2
    /\ \E i \in DOMAIN out : out[i].priority = 3 /\ out[i].feed_kind = "news"
    /\ \E i \in DOMAIN out : out[i].source = "Israel Home Front Command (Oref)"
    /\ Len(feed[1].entries) = 2


\* a link whose host is on the allow-list: its top-level domain is a listed one, or
\* the host is a listed publisher domain or a subdomain of one
AllowListedSource(link) ==
    LET host == Netloc(link)
    IN \/ \E tld \in EMEA_TLDS : EndsWith(host, tld)
       \/ \E dom \in EMEA_OUTLET_DOMAINS : host = dom \/ EndsWith(host, <<".">> \o dom)

Disallowed(text) == text.non_emea \/ text.us

\* a disallow-region token is overridden by an allow-region token or a watchlist
\* term, and by these only
DisallowOverride ==
    (pc = "geo" /\ probe.verdict # <<>> /\ Disallowed(probe.text)) =>
        (probe.verdict[1] <=> (probe.text.allow \/ probe.text.watch))

\* C11: under the strict policy is_emea_relevant rejects every entry with no
\* allow-region token, no watchlist term and no allow-listed source identity; an
\* entry with a disallow-region token is admitted whenever it also has an
\* allow-region token or a watchlist term, and is not admitted on source identity
\* alone.
C11_StrictGate ==
    (pc = "geo" /\ probe.verdict # <<>>) =>
        LET t == probe.text
            v == probe.verdict[1]
        IN /\ (~t.allow /\ ~t.watch /\ ~AllowListedSource(probe.link)) => ~v
           /\ (Disallowed(t) /\ (t.allow \/ t.watch)) => v
           /\ (Disallowed(t) /\ ~t.allow /\ ~t.watch) => ~v


\* the items its without their urgent flags
NoUrgent(its) == [i \in DOMAIN its |-> [its[i] EXCEPT !.urgent = FALSE]]

\* the entry e with the urgent term added to, or taken from, its text
OtherUrgency(e) == [e EXCEPT !.text.urgent_term = ~@]

\* C12: every collected item and every item of the output, the forced push alerts
\* included, has priority = to_priority(score); every entry the feed about to be
\* read may hold gets the same keep/drop outcome, score and priority in collection
\* with and without an urgent term; and the deduplication keeps and orders the
\* items as it does when none of them is urgent, so batches that differ only in
\* urgent flags get the same outcome.
C12_PriorityFromScoreOnly ==
    /\ \A i \in DOMAIN items : items[i].priority = to_priority(items[i].score)
    /\ \A i \in DOMAIN out : out[i].priority = to_priority(out[i].score)
    /\ (pc = "collect" /\ cnt = 0 /\ fi <= Len(Feeds)) =>
          \A e \in EntryPool :
              LET a == HarvestEntry(e, Feeds[fi], clock)
                  b == HarvestEntry(OtherUrgency(e), Feeds[fi], clock)
              IN /\ Len(a) = Len(b)
                 /\ a # <<>> => (a[1].priority = b[1].priority /\ a[1].score = b[1].score)
    /\ pc = "main" => NoUrgent(out) = Dedupe(NoUrgent(items))

C12_Witness ==
    /\ pc = "main"
    /\ Len(out) = 2
    /\ \E i \in DOMAIN out :
          /\ out[i].source = "Israel Home Front Command (Oref)"
          /\ out[i].score = P1_THRESHOLD + 5 /\ out[i].priority = 1 /\ out[i].urgent
    /\ \E i \in DOMAIN out :
          /\ out[i].feed_kind = "news" /\ out[i].urgent
          /\ out[i].priority = 2 /\ out[i].score < P1_THRESHOLD


\* what harvest() collects from the feeds when those in absent are not in ALL_FEEDS
\* and the others answer, at the same times, with the entries of the record read
RECURSIVE WithoutFeeds(_, _)
WithoutFeeds(read, absent) ==
    IF read = <<>> THEN <<>>
    ELSE LET r == Head(read)
         IN (IF r.feed \in absent THEN <<>>
             ELSE HarvestEntry(r.e, Feeds[r.feed], r.wall))
            \o WithoutFeeds(Tail(read), absent)

\* the items collected from the feeds (those of harvest_oref come after them)
FromFeeds == SelectSeq(items, LAMBDA it : it.source # "Israel Home Front Command (Oref)")

Isolated ==
    /\ \A r \in Range(probe.read) : r.feed \notin probe.failed
    /\ \A k \in probe.failed : \A i \in DOMAIN items : items[i].source # Feeds[k].source
    /\ FromFeeds = WithoutFeeds(probe.read, probe.failed)

\* C13: in a run where the fetch of a feed fails, the collection still runs to its
\* end, the failing feed contributes no item, and the items collected from the
\* other feeds are exactly those collected when the failing feed is absent.
C13_SourceIsolation ==
    /\ []Isolated
    /\ (probe.failed # {}) ~> (pc = "dedup")

C13_Witness ==
    /\ pc = "dedup"
    /\ probe.failed = {2}
    /\ Len(probe.read) = 2
    /\ probe.read[1].feed = 1 /\ probe.read[2].feed = 3
    /\ Len(FromFeeds) = 2
    /\ Len(items) = 2

====
